---- MODULE Spec2Model ----
(***************************************************************************)
(* Todo application: the ownership-scoped todo handlers of                 *)
(* server/routes/todos.js and the client session lifecycle of              *)
(* contexts/AuthContext.tsx with its routing screens.                      *)
(*                                                                         *)
(* Spec        : the todo routes (GET/POST/PUT/DELETE /api/todos).         *)
(* FieldSpec   : create and update with bodies exercising every field.     *)
(* ConcSpec    : the handlers split at their awaits: the lookup (with the  *)
(*               synchronous code that follows it) and the write.          *)
(* SessionSpec : the AuthProvider operations and the routing screens.      *)
(* StartupSpec : one run of the process, every awaited step settling.      *)
(***************************************************************************)
EXTENDS Integers, Sequences, FiniteSets, TLC

VARIABLES
    todos,      \* the Todo collection of the document store: a set of documents
    nextId,     \* the next fresh _id (ObjectIds are never reused)
    now,        \* the server clock, in milliseconds (Date.now())
    pending,    \* handlers suspended at their second await (todo.save, findByIdAndDelete)
    resp,       \* what the last handler step did: request line, status, body
    authState,  \* AuthProvider state: {user, token, isLoading}
    storage,    \* AsyncStorage item 'token' (the Credential Store), kept across restarts
    ops,        \* checkAuthState / login / register / logout: where each is suspended
    result,     \* the operation that ended last: how (resolved, rejected) and where
    hist,       \* which operation called setAuthState last, and what it had stored
    view        \* the route the app is on and the screen it renders

svars == <<todos, nextId, now, pending, resp>>
cvars == <<authState, storage, ops, result, hist, view>>
vars == <<svars, cvars>>

----------------------------------------------------------------------------
(* Optional values: a field that is absent (undefined) or present.         *)
None == <<>>
Some(v) == <<v>>
Opt(S) == {None} \cup {Some(v) : v \in S}

\* JavaScript truthiness of an optional string: undefined and '' are falsy.
Truthy(o) == o # None /\ o[1] # ""

----------------------------------------------------------------------------
(* Bounds                                                                  *)
MaxTodos == 2       \* todos ever created
MaxInFlight == 2    \* handlers suspended between lookup and write (ConcSpec)

Users == {"A", "B"}
Ids == 1..MaxTodos

\* Bearer tokens a request may carry.
Tokens ==
    { [kind |-> "missing", user |-> "-"],
      [kind |-> "malformed", user |-> "-"],
      [kind |-> "expired", user |-> "A"] }
    \cup { [kind |-> "valid", user |-> u] : u \in Users }

\* middleware/auth: the user a token decodes to, None when verification fails.
auth(tok) == IF tok.kind = "valid" THEN Some(tok.user) ELSE None

\* Request bodies: every field optional, a user identifier may be smuggled in.
EmptyBody ==
    [title |-> None, description |-> None, completed |-> None,
     priority |-> None, dueDate |-> None, user |-> None]

CreateBodies ==
    { EmptyBody,
      [EmptyBody EXCEPT !.title = Some("")],
      [EmptyBody EXCEPT !.title = Some("a")],
      [EmptyBody EXCEPT !.title = Some("a"), !.user = Some("A")] }

UpdateBodies ==
    { [EmptyBody EXCEPT !.title = Some("")],
      [EmptyBody EXCEPT !.title = Some("b")],
      [EmptyBody EXCEPT !.completed = Some(TRUE)],
      [EmptyBody EXCEPT !.title = Some("b"), !.user = Some("A")] }

\* The body of toggleTodo on an open Todo: {completed: true}.
OnlyCompleted == [EmptyBody EXCEPT !.completed = Some(TRUE)]

\* The token of a session logged in as u.
Session(u) == [kind |-> "valid", user |-> u]

\* Bodies of CreateTodoData for the field-level specification: the title
\* alone, every optional field supplied, an empty description supplied.
FieldCreateBodies ==
    { [EmptyBody EXCEPT !.title = Some("a")],
      [EmptyBody EXCEPT !.title = Some("a"), !.description = Some("d"),
                        !.priority = Some("high"), !.dueDate = Some("2026-01-01")],
      [EmptyBody EXCEPT !.title = Some("a"), !.description = Some(""),
                        !.priority = Some("low")] }

\* Bodies of UpdateTodoData for the field-level specification: every subset
\* of the five fields with one value each, and each falsy value on its own.
FieldUpdateBodies ==
    { [title |-> t, description |-> d, completed |-> c, priority |-> p,
       dueDate |-> due, user |-> None] :
          t \in Opt({"b"}), d \in Opt({"d"}), c \in Opt({TRUE}),
          p \in Opt({"low"}), due \in Opt({"2026-01-01"}) }
    \cup { [EmptyBody EXCEPT !.title = Some("")],
           [EmptyBody EXCEPT !.description = Some("")],
           [EmptyBody EXCEPT !.completed = Some(FALSE)],
           [EmptyBody EXCEPT !.dueDate = Some("")] }

----------------------------------------------------------------------------
(* The Todo model (models/Todo): defaults and validation on save.          *)
DefaultDescription == ""
DefaultPriority == "medium"

\* Schema defaults applied to the fields the constructor was not given.
SchemaDefaults(fields) ==
    [fields EXCEPT
        !.description = IF @ = None THEN Some(DefaultDescription) ELSE @,
        !.priority = IF @ = None THEN Some(DefaultPriority) ELSE @]

\* title is required: a missing or empty title fails validation.
Validates(fields) == Truthy(fields.title)

\* NewTodoFields taking the owner from the body when it names one.
NewTodoFieldsBodyUser(body, caller) ==
    [title |-> body.title,
     description |-> body.description,
     priority |-> body.priority,
     dueDate |-> IF Truthy(body.dueDate) THEN body.dueDate ELSE None,
     user |-> IF body.user # None THEN body.user[1] ELSE caller]

\* NewTodoFields with priority left out of the constructor.
NewTodoFieldsPriorityDropped(body, caller) ==
    [title |-> body.title,
     description |-> body.description,
     priority |-> None,
     dueDate |-> IF Truthy(body.dueDate) THEN body.dueDate ELSE None,
     user |-> caller]

\* new Todo({title, description, priority, dueDate, user: req.user._id})
NewTodoFields(body, caller) ==
    [title |-> body.title,
     description |-> body.description,
     priority |-> body.priority,
     dueDate |-> IF Truthy(body.dueDate) THEN body.dueDate ELSE None,
     user |-> caller]

\* The stored document of a validated construction.
Document(fields, id, ts) ==
    LET f == SchemaDefaults(fields) IN
    [id |-> id, user |-> f.user, title |-> f.title[1],
     description |-> f.description[1], completed |-> FALSE,
     priority |-> f.priority[1], dueDate |-> f.dueDate, createdAt |-> ts]

----------------------------------------------------------------------------
(* Queries                                                                 *)
\* Todo.find({user}) : the documents of one user.
FindByUser(u) == {t \in todos : t.user = u}

\* FindOne with the owner dropped from the filter.
FindOneAnyOwner(id, u) == {t \in todos : t.id = id}

\* Todo.findOne({_id, user}) : the matching documents (at most one).
FindOne(id, u) == {t \in todos : t.id = id /\ t.user = u}

Perms(S) ==
    {s \in [1..Cardinality(S) -> S] : \A i, j \in DOMAIN s : i # j => s[i] # s[j]}

\* SortCreatedAtDesc with the direction reversed: .sort({createdAt: 1}).
SortCreatedAtAsc(S) ==
    {s \in Perms(S) : \A i \in 1..(Cardinality(S) - 1) : s[i].createdAt <= s[i + 1].createdAt}

\* .sort({createdAt: -1}) : every order the store may answer with; documents
\* with equal createdAt come in no specified order.
SortCreatedAtDesc(S) ==
    {s \in Perms(S) : \A i \in 1..(Cardinality(S) - 1) : s[i].createdAt >= s[i + 1].createdAt}

\* One handler step: the request (method, token, :id and the body the handler
\* read) and the answer (status 0: none yet, the handler is suspended).
Response(op, tok, id, req, status, body) ==
    [op |-> op, token |-> tok, id |-> id, req |-> req, status |-> status, body |-> body]

\* The auth middleware answers 401 and the handler never runs.
Unauthorized(op, tok, id) ==
    /\ resp' = Response(op, tok, id, EmptyBody, 401, "Unauthorized")
    /\ UNCHANGED <<todos, nextId, now, pending>>

\* Assign with priority assigned from the body even when it is absent
\* (the schema default then applies).
AssignPriorityAlways(todo, body) ==
    [todo EXCEPT
        !.title = IF Truthy(body.title) THEN body.title[1] ELSE @,
        !.description = IF body.description # None THEN body.description[1] ELSE @,
        !.completed = IF body.completed # None THEN body.completed[1] ELSE @,
        !.priority = IF Truthy(body.priority) THEN body.priority[1] ELSE DefaultPriority,
        !.dueDate = IF Truthy(body.dueDate) THEN body.dueDate ELSE @]

\* Lines 47-51: the assignments onto the found document.
Assign(todo, body) ==
    [todo EXCEPT
        !.title = IF Truthy(body.title) THEN body.title[1] ELSE @,
        !.description = IF body.description # None THEN body.description[1] ELSE @,
        !.completed = IF body.completed # None THEN body.completed[1] ELSE @,
        !.priority = IF Truthy(body.priority) THEN body.priority[1] ELSE @,
        !.dueDate = IF Truthy(body.dueDate) THEN body.dueDate ELSE @]

DocFields == {"title", "description", "completed", "priority", "dueDate"}

\* The paths todo.save() writes: those whose value the handler changed.
Modified(old, new) == {f \in DocFields : old[f] # new[f]}

\* The stored document after the update todo.save() sends.
Saved(stored, doc, dirty) ==
    [f \in DOMAIN stored |-> IF f \in dirty THEN doc[f] ELSE stored[f]]

\* The collection after todo.save() of doc (no upsert: a document that is gone
\* stays gone).
SaveTo(store, doc, dirty) ==
    {IF t.id = doc.id THEN Saved(t, doc, dirty) ELSE t : t \in store}

\* The collection after Todo.findByIdAndDelete(id): the filter is the _id alone.
DeleteById(store, id) == {t \in store : t.id # id}

----------------------------------------------------------------------------
(* GET /api/todos                                                          *)
GetTodos(tok) ==
    /\ UNCHANGED cvars
    /\ IF auth(tok) = None THEN Unauthorized("get", tok, 0)
       ELSE
           /\ \E list \in SortCreatedAtDesc(FindByUser(auth(tok)[1])) :
                  resp' = Response("get", tok, 0, EmptyBody, 200, list)
           /\ UNCHANGED <<todos, nextId, now, pending>>

\* PostTodo with the _id of a deleted document handed out again.
PostTodoReusingIds(tok, body, adv) ==
    /\ UNCHANGED cvars
    /\ auth(tok) # None
    /\ Validates(NewTodoFields(body, auth(tok)[1]))
    /\ \E id \in Ids :
          /\ \A t \in todos : t.id # id
          /\ \A k \in 1..(id - 1) : \E t \in todos : t.id = k
          /\ now' = now + adv
          /\ LET doc == Document(NewTodoFields(body, auth(tok)[1]), id, now') IN
                 /\ todos' = todos \cup {doc}
                 /\ resp' = Response("post", tok, doc.id, body, 201, doc)
    /\ UNCHANGED <<nextId, pending>>

(* POST /api/todos.  adv: whether the clock has moved on since the last    *)
(* timestamp was taken.                                                    *)
PostTodo(tok, body, adv) ==
    /\ UNCHANGED cvars
    /\ IF auth(tok) = None THEN Unauthorized("post", tok, 0)
       ELSE
           LET fields == NewTodoFields(body, auth(tok)[1]) IN
           IF ~Validates(fields)
           THEN \* todo.save() throws ValidationError; the catch answers 500
                /\ resp' = Response("post", tok, 0, body, 500, "Server error")
                /\ UNCHANGED <<todos, nextId, now, pending>>
           ELSE /\ nextId <= MaxTodos
                /\ now' = now + adv
                /\ LET doc == Document(fields, nextId, now') IN
                       /\ todos' = todos \cup {doc}
                       /\ resp' = Response("post", tok, doc.id, body, 201, doc)
                /\ nextId' = nextId + 1
                /\ UNCHANGED pending

(* PUT /api/todos/:id, the handler run to its end                          *)
PutTodo(tok, id, body) ==
    /\ UNCHANGED cvars
    /\ IF auth(tok) = None THEN Unauthorized("put", tok, id)
       ELSE
           LET found == FindOne(id, auth(tok)[1]) IN
           IF found = {}
           THEN /\ resp' = Response("put", tok, id, body, 404, "Todo not found")
                /\ UNCHANGED <<todos, nextId, now, pending>>
           ELSE \E todo \in found :
                LET doc == Assign(todo, body) IN
                /\ todos' = SaveTo(todos, doc, Modified(todo, doc))
                /\ resp' = Response("put", tok, id, body, 200, doc)
                /\ UNCHANGED <<nextId, now, pending>>

\* DeleteTodo registered without the auth middleware.
DeleteTodoNoAuth(tok, id) ==
    /\ UNCHANGED cvars
    /\ todos' = DeleteById(todos, id)
    /\ resp' = Response("delete", tok, id, EmptyBody, 200, "Todo deleted successfully")
    /\ UNCHANGED <<nextId, now, pending>>

(* DELETE /api/todos/:id, the handler run to its end                       *)
DeleteTodo(tok, id) ==
    /\ UNCHANGED cvars
    /\ IF auth(tok) = None THEN Unauthorized("delete", tok, id)
       ELSE
           IF FindOne(id, auth(tok)[1]) = {}
           THEN /\ resp' = Response("delete", tok, id, EmptyBody, 404, "Todo not found")
                /\ UNCHANGED <<todos, nextId, now, pending>>
           ELSE /\ todos' = DeleteById(todos, id)
                /\ resp' = Response("delete", tok, id, EmptyBody, 200, "Todo deleted successfully")
                /\ UNCHANGED <<nextId, now, pending>>

----------------------------------------------------------------------------
(* The same handlers split at the await between lookup and write, for      *)
(* requests that overlap.                                                  *)

\* A suspended handler: its request, the document it found (its owner, and
\* for PUT the document as assigned with its modified paths), and the
\* connection it runs for, so that two equal requests are two handlers.
Suspended(op, tok, id, req, found, doc, dirty) ==
    [conn |-> CHOOSE n \in 1..MaxInFlight :
                 /\ \A p \in pending : p.conn # n
                 /\ \A k \in 1..(n - 1) : \E p \in pending : p.conn = k,
     op |-> op, token |-> tok, id |-> id, req |-> req,
     owner |-> found.user, doc |-> doc, dirty |-> dirty]

(* PUT /api/todos/:id up to the await of todo.save()                       *)
PutFind(tok, id, body) ==
    /\ UNCHANGED cvars
    /\ IF auth(tok) = None THEN Unauthorized("put", tok, id)
       ELSE
           LET found == FindOne(id, auth(tok)[1]) IN
           IF found = {}
           THEN /\ resp' = Response("put", tok, id, body, 404, "Todo not found")
                /\ UNCHANGED <<todos, nextId, now, pending>>
           ELSE \E todo \in found :
                LET doc == Assign(todo, body) IN
                /\ Cardinality(pending) < MaxInFlight
                /\ pending' = pending \cup
                       {Suspended("put", tok, id, body, todo, doc, Modified(todo, doc))}
                /\ resp' = Response("put", tok, id, body, 0, "awaiting save")
                /\ UNCHANGED <<todos, nextId, now>>

(* PUT /api/todos/:id from todo.save() on.  A document deleted since the   *)
(* lookup is not recreated: save() of modified paths then either throws    *)
(* (DocumentNotFoundError, answered 500) or resolves, by library version.  *)
PutSave(p, gone) ==
    /\ UNCHANGED cvars
    /\ p \in pending
    /\ p.op = "put"
    /\ pending' = pending \ {p}
    /\ todos' = SaveTo(todos, p.doc, p.dirty)
    /\ resp' = IF (\A t \in todos : t.id # p.id) /\ p.dirty # {} /\ gone = 500
               THEN Response("put", p.token, p.id, p.req, 500, "Server error")
               ELSE Response("put", p.token, p.id, p.req, 200, p.doc)
    /\ UNCHANGED <<nextId, now>>

(* DELETE /api/todos/:id up to the await of findByIdAndDelete              *)
DeleteFind(tok, id) ==
    /\ UNCHANGED cvars
    /\ IF auth(tok) = None THEN Unauthorized("delete", tok, id)
       ELSE
           LET found == FindOne(id, auth(tok)[1]) IN
           IF found = {}
           THEN /\ resp' = Response("delete", tok, id, EmptyBody, 404, "Todo not found")
                /\ UNCHANGED <<todos, nextId, now, pending>>
           ELSE \E todo \in found :
                /\ Cardinality(pending) < MaxInFlight
                /\ pending' = pending \cup
                       {Suspended("delete", tok, id, EmptyBody, todo, None, {})}
                /\ resp' = Response("delete", tok, id, EmptyBody, 0, "awaiting delete")
                /\ UNCHANGED <<todos, nextId, now>>

(* DELETE /api/todos/:id : Todo.findByIdAndDelete(req.params.id)           *)
DeleteRun(p) ==
    /\ UNCHANGED cvars
    /\ p \in pending
    /\ p.op = "delete"
    /\ pending' = pending \ {p}
    /\ todos' = DeleteById(todos, p.id)
    /\ resp' = Response("delete", p.token, p.id, p.req, 200, "Todo deleted successfully")
    /\ UNCHANGED <<nextId, now>>

----------------------------------------------------------------------------
(* The client session: contexts/AuthContext.tsx, services/api.ts and the   *)
(* routing screens app/index.tsx and app/(tabs)/_layout.tsx.               *)

MaxActive == 2      \* session operations in progress at once

Null == "null"
TokenOf(u) == "token-" \o u
\* the tokens the server has issued, each encoding one user
StoredTokens == {TokenOf(u) : u \in Users}
UserOf(t) == CHOOSE u \in Users : TokenOf(u) = t

OpNames == {"check", "login", "register", "logout"}

\* useState<AuthState>({user: null, token: null, isLoading: true})
InitialAuthState == [user |-> Null, token |-> Null, isLoading |-> TRUE]
\* setAuthState({user: null, token: null, isLoading: false})
Anonymous == [user |-> Null, token |-> Null, isLoading |-> FALSE]
\* setAuthState({user, token, isLoading: false})
Authenticated(u, t) == [user |-> u, token |-> t, isLoading |-> FALSE]

\* An operation: where it is suspended, its local token (the item read, or
\* response.token), the token its request carried, the token it has stored,
\* and the await whose error its catch block is handling.
Idle == [pc |-> "idle", token |-> Null, header |-> Null, wrote |-> Null, caught |-> Null]
Active == {o \in OpNames : ops[o].pc # "idle"}

\* TabLayout without the redirect of a missing user.
TabLayoutNoGuard(s) ==
    IF s.isLoading THEN [route |-> "tabs", screen |-> "spinner"]
    ELSE [route |-> "tabs", screen |-> "tabs"]

(* app/(tabs)/_layout.tsx TabLayout: spinner, redirect to login, or tabs   *)
TabLayout(s) ==
    IF s.isLoading THEN [route |-> "tabs", screen |-> "spinner"]
    ELSE IF s.user = Null THEN [route |-> "login", screen |-> "login"]
    ELSE [route |-> "tabs", screen |-> "tabs"]

(* app/index.tsx IndexScreen: spinner, redirect to tabs, or to login       *)
IndexScreen(s) ==
    IF s.isLoading THEN [route |-> "index", screen |-> "spinner"]
    ELSE IF s.user # Null THEN TabLayout(s)
    ELSE [route |-> "login", screen |-> "login"]

\* What the app shows on a route in a session state; rendered again whenever
\* the context value changes.  The (auth) screens do not redirect.
Render(route, s) ==
    CASE route = "index" -> IndexScreen(s)
      [] route = "tabs" -> TabLayout(s)
      [] OTHER -> [route |-> "login", screen |-> "login"]

\* setAuthState(s) called by operation by, which had stored token wrote.
SetAuthState(s, by, wrote) ==
    /\ authState' = s
    /\ view' = Render(view.route, s)
    /\ hist' = [hist EXCEPT !.setBy = by, !.wrote = wrote]

NoResult == [op |-> "none", how |-> "none", at |-> "idle", token |-> Null, caught |-> Null]

\* The operation settles: resolved, or rejected with the error thrown to its
\* caller (checkAuthState has none: useEffect drops the promise).
Ends(op, how) ==
    /\ ops' = [ops EXCEPT ![op] = Idle]
    /\ result' = [op |-> op, how |-> how, at |-> ops[op].pc, token |-> ops[op].token,
                  caught |-> ops[op].caught]

(* checkAuthState, the catch block up to its await: removeItem either      *)
(* clears the item or rejects, and a rejection leaves checkAuthState       *)
(* rejected with nobody to catch it.                                       *)
CheckCatch(removeFails) ==
    IF removeFails
    THEN /\ Ends("check", "rejected")
         /\ UNCHANGED <<authState, storage, hist, view>>
    ELSE /\ storage' = Null
         /\ ops' = [ops EXCEPT !["check"] = [@ EXCEPT !.pc = "discarded", !.caught = ops["check"].pc]]
         /\ UNCHANGED <<authState, result, hist, view>>

(* checkAuthState: AsyncStorage.getItem('token') settles                   *)
CheckRead(readFails, removeFails) ==
    /\ UNCHANGED svars
    /\ ops["check"].pc = "read"
    /\ IF readFails THEN CheckCatch(removeFails)
       ELSE IF storage = Null
       THEN /\ SetAuthState(Anonymous, "check", Null)
            /\ Ends("check", "resolved")
            /\ UNCHANGED storage
       ELSE /\ ops' = [ops EXCEPT !["check"] =
                          [Idle EXCEPT !.pc = "headers", !.token = storage]]
            /\ UNCHANGED <<authState, storage, result, hist, view>>

(* ApiService.getCurrentUser: getAuthHeaders reads the item again and the  *)
(* request leaves with what it read                                        *)
CheckHeaders(readFails, removeFails) ==
    /\ UNCHANGED svars
    /\ ops["check"].pc = "headers"
    /\ IF readFails THEN CheckCatch(removeFails)
       ELSE /\ ops' = [ops EXCEPT !["check"] = [@ EXCEPT !.pc = "fetch", !.header = storage]]
            /\ UNCHANGED <<authState, storage, result, hist, view>>

(* GET /auth/me answers: ok only for a request that carried a token; a     *)
(* non-OK answer and a network error both throw                            *)
CheckResponse(ok, removeFails) ==
    /\ UNCHANGED svars
    /\ ops["check"].pc = "fetch"
    /\ ok => ops["check"].header # Null
    /\ IF ok
       THEN /\ SetAuthState(Authenticated(UserOf(ops["check"].header), ops["check"].token),
                            "check", Null)
            /\ Ends("check", "resolved")
            /\ UNCHANGED storage
       ELSE CheckCatch(removeFails)

(* checkAuthState: the catch block after removeItem                        *)
CheckFinish ==
    /\ UNCHANGED svars
    /\ ops["check"].pc = "discarded"
    /\ SetAuthState(Anonymous, "check", Null)
    /\ Ends("check", "resolved")
    /\ UNCHANGED storage

(* login(data) / register(data) is called from the (auth) screens          *)
SignStart(op) ==
    /\ UNCHANGED svars
    /\ ops[op].pc = "idle"
    /\ view.route = "login"
    /\ Cardinality(Active) < MaxActive
    /\ ops' = [ops EXCEPT ![op] = [Idle EXCEPT !.pc = "fetch"]]
    /\ UNCHANGED <<authState, storage, result, hist, view>>

\* SignResponse with the error swallowed instead of rethrown.
SignResponseSwallowed(op, ok, u) ==
    /\ UNCHANGED svars
    /\ ops[op].pc = "fetch"
    /\ IF ~ok
       THEN /\ Ends(op, "resolved")
            /\ UNCHANGED <<authState, storage, hist, view>>
       ELSE /\ ops' = [ops EXCEPT ![op] = [Idle EXCEPT !.pc = "setItem", !.token = TokenOf(u)]]
            /\ UNCHANGED <<authState, storage, result, hist, view>>

(* ApiService.login / register settles.  A non-OK answer or a network      *)
(* error throws and login rethrows; an OK answer is {user, token}.         *)
SignResponse(op, ok, u) ==
    /\ UNCHANGED svars
    /\ ops[op].pc = "fetch"
    /\ IF ~ok
       THEN /\ Ends(op, "rejected")
            /\ UNCHANGED <<authState, storage, hist, view>>
       ELSE /\ ops' = [ops EXCEPT ![op] = [Idle EXCEPT !.pc = "setItem", !.token = TokenOf(u)]]
            /\ UNCHANGED <<authState, storage, result, hist, view>>

\* SignStore going on without the item written.
SignStoreSkipped(op, setFails) ==
    /\ UNCHANGED svars
    /\ ops[op].pc = "setItem"
    /\ IF setFails
       THEN /\ Ends(op, "rejected")
            /\ UNCHANGED <<authState, storage, hist, view>>
       ELSE /\ ops' = [ops EXCEPT ![op] = [@ EXCEPT !.pc = "stored"]]
            /\ UNCHANGED <<authState, storage, result, hist, view>>

(* await AsyncStorage.setItem('token', response.token): stores or rejects  *)
SignStore(op, setFails) ==
    /\ UNCHANGED svars
    /\ ops[op].pc = "setItem"
    /\ IF setFails
       THEN /\ Ends(op, "rejected")
            /\ UNCHANGED <<authState, storage, hist, view>>
       ELSE /\ storage' = ops[op].token
            /\ ops' = [ops EXCEPT ![op] = [@ EXCEPT !.pc = "stored", !.wrote = ops[op].token]]
            /\ hist' = [hist EXCEPT !.logout = "no"]
            /\ UNCHANGED <<authState, result, view>>

(* login / register after setItem: setAuthState({user, token, false})      *)
SignFinish(op) ==
    /\ UNCHANGED svars
    /\ ops[op].pc = "stored"
    /\ SetAuthState(Authenticated(UserOf(ops[op].token), ops[op].token), op, ops[op].wrote)
    /\ Ends(op, "resolved")
    /\ UNCHANGED storage

(* ProfileScreen.handleLogout: the Logout button of the profile tab        *)
LogoutStart ==
    /\ UNCHANGED svars
    /\ ops["logout"].pc = "idle"
    /\ view.screen = "tabs"
    /\ Cardinality(Active) < MaxActive
    /\ ops' = [ops EXCEPT !["logout"] = [Idle EXCEPT !.pc = "removing"]]
    /\ hist' = [hist EXCEPT !.logout = "started"]
    /\ UNCHANGED <<authState, storage, result, view>>

(* logout: AsyncStorage.removeItem('token') clears the item or rejects     *)
LogoutRemove(removeFails) ==
    /\ UNCHANGED svars
    /\ ops["logout"].pc = "removing"
    /\ IF removeFails
       THEN /\ Ends("logout", "rejected")
            /\ UNCHANGED <<authState, storage, hist, view>>
       ELSE /\ storage' = Null
            /\ ops' = [ops EXCEPT !["logout"] = [Idle EXCEPT !.pc = "removed"]]
            /\ UNCHANGED <<authState, result, hist, view>>

(* logout after removeItem: setAuthState(anonymous); handleLogout then     *)
(* replaces the route by /(auth)/login                                     *)
LogoutFinish ==
    /\ UNCHANGED svars
    /\ ops["logout"].pc = "removed"
    /\ authState' = Anonymous
    /\ view' = Render("login", Anonymous)
    /\ hist' = [setBy |-> "logout", wrote |-> Null,
                logout |-> IF hist.logout = "started" THEN "observed" ELSE hist.logout]
    /\ Ends("logout", "resolved")
    /\ UNCHANGED storage

(* The app is opened on, or navigates to, a route.                         *)
OpenRoute(r) ==
    /\ UNCHANGED svars
    /\ view' = Render(r, authState)
    /\ view' # view
    /\ UNCHANGED <<authState, storage, ops, result, hist>>

(* The user navigates: while the spinner is shown there is nothing to       *)
(* navigate with.                                                          *)
Navigate(r) ==
    /\ ~authState.isLoading
    /\ OpenRoute(r)

(* The process is killed and started again: memory is lost, the            *)
(* Credential Store is kept, AuthProvider mounts and runs checkAuthState.  *)
Restart ==
    /\ UNCHANGED svars
    /\ authState' = InitialAuthState
    /\ ops' = [o \in OpNames |-> IF o = "check" THEN [Idle EXCEPT !.pc = "read"] ELSE Idle]
    /\ result' = NoResult
    /\ hist' = [setBy |-> "init", wrote |-> Null,
                logout |-> CASE hist.logout \in {"observed", "restarted"} -> "restarted"
                             [] OTHER -> "no"]
    /\ view' = Render("index", InitialAuthState)
    /\ UNCHANGED storage

ClientInit ==
    /\ authState = InitialAuthState
    /\ ops = [o \in OpNames |-> IF o = "check" THEN [Idle EXCEPT !.pc = "read"] ELSE Idle]
    /\ result = NoResult
    /\ hist = [setBy |-> "init", wrote |-> Null, logout |-> "no"]
    /\ view = Render("index", InitialAuthState)

----------------------------------------------------------------------------
ServerInit ==
    /\ todos = {}
    /\ nextId = 1
    /\ now = 0
    /\ pending = {}
    /\ resp = Response("none", [kind |-> "missing", user |-> "-"], 0, EmptyBody, 0, "")

Init ==
    /\ ServerInit
    /\ ClientInit
    /\ storage = Null

Next ==
    \/ \E tok \in Tokens : GetTodos(tok)
    \/ \E tok \in Tokens, body \in CreateBodies, adv \in {0, 1} : PostTodo(tok, body, adv)
    \/ \E tok \in Tokens, id \in Ids, body \in UpdateBodies : PutTodo(tok, id, body)
    \/ \E tok \in Tokens, id \in Ids : DeleteTodo(tok, id)

Spec == Init /\ [][Next]_vars

\* Requests of sessions that are logged in, overlapping: a handler may be
\* suspended at its write while others run.
ConcNext ==
    \/ \E u \in Users : PostTodo(Session(u), [EmptyBody EXCEPT !.title = Some("a")], 1)
    \/ \E u \in Users, id \in Ids : PutFind(Session(u), id, OnlyCompleted)
    \/ \E p \in pending, gone \in {200, 500} : PutSave(p, gone)
    \/ \E u \in Users, id \in Ids : DeleteFind(Session(u), id)
    \/ \E p \in pending : DeleteRun(p)

ConcSpec == Init /\ [][ConcNext]_vars

\* The create and update handlers with bodies that exercise every field; the
\* updates address the Todo created first, the others stand by.
FieldNext ==
    \/ \E u \in Users, body \in FieldCreateBodies :
          PostTodo(Session(u), body, 1)
    \/ \E u \in Users, body \in FieldUpdateBodies :
          PutTodo(Session(u), 1, body)

FieldSpec == Init /\ [][FieldNext]_vars

SessionInit ==
    /\ ServerInit
    /\ ClientInit
    /\ storage \in {Null} \cup StoredTokens

SessionNext ==
    \/ \E rf, df \in BOOLEAN : CheckRead(rf, df)
    \/ \E rf, df \in BOOLEAN : CheckHeaders(rf, df)
    \/ \E ok, df \in BOOLEAN : CheckResponse(ok, df)
    \/ CheckFinish
    \/ \E op \in {"login", "register"} : SignStart(op)
    \/ \E op \in {"login", "register"}, ok \in BOOLEAN, u \in Users : SignResponse(op, ok, u)
    \/ \E op \in {"login", "register"}, sf \in BOOLEAN : SignStore(op, sf)
    \/ \E op \in {"login", "register"} : SignFinish(op)
    \/ LogoutStart
    \/ \E df \in BOOLEAN : LogoutRemove(df)
    \/ LogoutFinish
    \/ \E r \in {"index", "tabs", "login"} : OpenRoute(r)
    \/ Restart

SessionSpec == SessionInit /\ [][SessionNext]_vars

\* The awaited promises: an AsyncStorage call or a fetch that is pending
\* settles (fulfilled or rejected) and the async function resumes.
CheckSettles ==
    \/ \E rf, df \in BOOLEAN : CheckRead(rf, df)
    \/ \E rf, df \in BOOLEAN : CheckHeaders(rf, df)
    \/ \E ok, df \in BOOLEAN : CheckResponse(ok, df)
    \/ CheckFinish

SignSettles ==
    \/ \E op \in {"login", "register"}, ok \in BOOLEAN, u \in Users : SignResponse(op, ok, u)
    \/ \E op \in {"login", "register"}, sf \in BOOLEAN : SignStore(op, sf)
    \/ \E op \in {"login", "register"} : SignFinish(op)

LogoutSettles ==
    \/ \E df \in BOOLEAN : LogoutRemove(df)
    \/ LogoutFinish

\* One run of the process, from the mount of AuthProvider on the index route:
\* what the user does is up to the user, what is awaited settles.
StartupNext ==
    \/ \E rf, df \in BOOLEAN : CheckRead(rf, df)
    \/ \E rf, df \in BOOLEAN : CheckHeaders(rf, df)
    \/ \E ok, df \in BOOLEAN : CheckResponse(ok, df)
    \/ CheckFinish
    \/ \E op \in {"login", "register"} : SignStart(op)
    \/ \E op \in {"login", "register"}, ok \in BOOLEAN, u \in Users : SignResponse(op, ok, u)
    \/ \E op \in {"login", "register"}, sf \in BOOLEAN : SignStore(op, sf)
    \/ \E op \in {"login", "register"} : SignFinish(op)
    \/ LogoutStart
    \/ \E df \in BOOLEAN : LogoutRemove(df)
    \/ LogoutFinish
    \/ \E r \in {"index", "tabs", "login"} : Navigate(r)

StartupSpec ==
    /\ SessionInit
    /\ [][StartupNext]_vars
    /\ WF_vars(CheckSettles)
    /\ WF_vars(SignSettles)
    /\ WF_vars(LogoutSettles)

----------------------------------------------------------------------------
(* Properties of the todo routes                                           *)

Caller(r) == auth(r.token)[1]

\* C1: an update or delete of a Todo authenticated as a user other than its
\* owner is answered 404 and leaves the collection as it was.
C1_CrossUserNotFound ==
    [][ ( /\ resp'.op \in {"put", "delete"}
          /\ auth(resp'.token) # None
          /\ \E t \in todos : t.id = resp'.id /\ t.user # Caller(resp') )
        => (resp'.status = 404 /\ todos' = todos /\ pending' = pending) ]_vars

\* B asked to update A's Todo with a new title, was answered 404, and the
\* Todo still has its first title.
C1_Witness ==
    /\ resp.op = "put"
    /\ resp.token = [kind |-> "valid", user |-> "B"]
    /\ resp.req.title = Some("b")
    /\ resp.status = 404
    /\ \E t \in todos : t.id = resp.id /\ t.user = "A" /\ t.title = "a"

ListedIsOwned(r) ==
    /\ {r.body[i] : i \in DOMAIN r.body} = FindByUser(Caller(r))
    /\ Len(r.body) = Cardinality(FindByUser(Caller(r)))

\* C2 (as amended): a list answers exactly the caller's Todos, each once, by
\* creation timestamp descending; of two Todos with different timestamps the
\* one created later comes first.
C2_ListOwnedByCreatedAtDesc ==
    (resp.op = "get" /\ resp.status = 200) =>
        /\ ListedIsOwned(resp)
        /\ \A i, j \in DOMAIN resp.body : i < j =>
              /\ resp.body[i].createdAt >= resp.body[j].createdAt
              /\ resp.body[i].createdAt # resp.body[j].createdAt
                    => resp.body[i].id > resp.body[j].id

\* C2 as stated: the list is in reverse order of creation (ids are handed out
\* in creation order), whatever the timestamps.
C2_ListReverseCreationOrder ==
    (resp.op = "get" /\ resp.status = 200) =>
        /\ ListedIsOwned(resp)
        /\ \A i, j \in DOMAIN resp.body : i < j => resp.body[i].id > resp.body[j].id

\* A list of two Todos with different timestamps, while one was listed.
C2_Witness ==
    /\ resp.op = "get"
    /\ resp.status = 200
    /\ Len(resp.body) = 2
    /\ resp.body[1].createdAt > resp.body[2].createdAt

\* C3: no step changes the owner of a Todo, a Todo that appears was created
\* by a POST and is owned by the caller of that POST whatever the body says,
\* and an _id names one document.
C3_OwnerFixed ==
    [][ /\ \A t \in todos, u \in todos' : t.id = u.id => u.user = t.user
        /\ \A u \in todos' : (\A t \in todos : t.id # u.id) =>
              /\ resp'.op = "post"
              /\ auth(resp'.token) = Some(u.user)
        /\ \A t, u \in todos' : t.id = u.id => t = u ]_vars

\* B updated its own Todo with a body naming user A, and still owns it.
C3_Witness ==
    /\ resp.op = "put"
    /\ resp.status = 200
    /\ resp.token = [kind |-> "valid", user |-> "B"]
    /\ resp.req.user = Some("A")
    /\ \E t \in todos : t.id = resp.id /\ t.user = "B" /\ t.title = "b"

\* C4: a request whose token does not verify is answered 401 and changes
\* neither the collection nor any suspended handler.
C4_TokenRequired ==
    [][ auth(resp'.token) = None =>
            /\ resp'.op \in {"get", "post", "put", "delete"}
            /\ resp'.status = 401
            /\ todos' = todos
            /\ pending' = pending ]_vars

\* A delete with an expired token was answered 401 with Todos in the store.
C4_Witness ==
    /\ resp.op = "delete"
    /\ resp.token.kind = "expired"
    /\ resp.status = 401
    /\ \E t \in todos : t.id = resp.id

\* C10: a create with a missing or empty title is answered 400 and creates
\* nothing.
C10_EmptyTitleIs400 ==
    [][ (resp'.op = "post" /\ auth(resp'.token) # None /\ ~Truthy(resp'.req.title))
        => (resp'.status = 400 /\ todos' = todos) ]_vars

\* C11: a successful update by the owner with the body {completed: true}
\* answers the Todo with completed set and every other field, the owner
\* included, as before; that document replaces the old one in the collection
\* and no other document changes.
C11_CompletedOnlyFrame ==
    [][ (resp'.op = "put" /\ resp'.status = 200 /\ resp'.req = OnlyCompleted)
        => \E t \in todos :
              /\ t.id = resp'.id
              /\ t.user = Caller(resp')
              /\ resp'.body = [t EXCEPT !.completed = TRUE]
              /\ todos' = (todos \ {t}) \cup {[t EXCEPT !.completed = TRUE]} ]_vars

\* A's Todo with every optional field set was completed by {completed: true}
\* while B's Todo was in the collection.
C11_Witness ==
    /\ resp.op = "put"
    /\ resp.status = 200
    /\ resp.req = OnlyCompleted
    /\ resp.body.user = "A"
    /\ resp.body.completed
    /\ resp.body.priority = "high"
    /\ resp.body.description = "d"
    /\ resp.body.dueDate = Some("2026-01-01")
    /\ resp.body \in todos
    /\ \E t \in todos : t.user = "B"

\* C12: the Todo a successful create answers is the one stored, is owned by
\* the caller and not completed; priority and description are the supplied
\* ones, or medium and the empty string when omitted.
C12_CreateDefaults ==
    [][ (resp'.op = "post" /\ resp'.status = 201)
        => /\ resp'.body.user = Caller(resp')
           /\ resp'.body.completed = FALSE
           /\ resp'.body.priority =
                 IF resp'.req.priority = None THEN "medium" ELSE resp'.req.priority[1]
           /\ resp'.body.description =
                 IF resp'.req.description = None THEN "" ELSE resp'.req.description[1]
           /\ todos' = todos \cup {resp'.body}
           /\ resp'.body \notin todos ]_vars

\* B created a Todo with the title alone after A created one with priority
\* high and a description.
C12_Witness ==
    /\ resp.op = "post"
    /\ resp.status = 201
    /\ resp.req = [EmptyBody EXCEPT !.title = Some("a")]
    /\ resp.body.user = "B"
    /\ resp.body.priority = "medium"
    /\ resp.body.description = ""
    /\ \E t \in todos : t.user = "A" /\ t.priority = "high" /\ t.description = "d"

\* C13: after a successful update every supplied field of the answered and
\* stored Todo is the supplied value, falsy values included, and every omitted
\* field is as before.
C13_SuppliedFieldsStored ==
    [][ (resp'.op = "put" /\ resp'.status = 200)
        => \E t \in todos :
              /\ t.id = resp'.id
              /\ \A f \in {"title", "description", "completed", "priority"} :
                    resp'.body[f] = IF resp'.req[f] = None THEN t[f] ELSE resp'.req[f][1]
              /\ resp'.body.dueDate =
                    IF resp'.req.dueDate = None THEN t.dueDate ELSE resp'.req.dueDate
              /\ resp'.body \in todos' ]_vars

\* C14: with update and delete handlers of different sessions overlapping,
\* a handler is suspended at its write only after its lookup found a Todo of
\* its caller; a document is removed or modified only by a request of its
\* owner addressed to it; and an update or delete answered 200 is one whose
\* lookup found a Todo owned by its caller, which, if it is still there, is
\* still owned by that caller.
C14_OverlappingRequestsKeepOwnership ==
    [][ /\ \A p \in pending' \ pending :
              /\ p.owner = auth(p.token)[1]
              /\ \E t \in todos : t.id = p.id /\ t.user = p.owner
        /\ \A t \in todos : t \notin todos' =>
              /\ resp'.op \in {"put", "delete"}
              /\ auth(resp'.token) = Some(t.user)
              /\ resp'.id = t.id
        /\ (resp'.op \in {"put", "delete"} /\ resp'.status = 200) =>
              \E p \in pending \ pending' :
                 /\ p.op = resp'.op
                 /\ p.token = resp'.token
                 /\ p.id = resp'.id
                 /\ p.owner = Caller(resp')
                 /\ \A t \in todos : t.id = p.id => t.user = Caller(resp') ]_vars

\* A's delete ran while an update of the same Todo was suspended at its save
\* and B held a Todo; the update was then answered, the Todo stayed deleted
\* and B's Todo is still there.
C14_Witness ==
    /\ resp.op = "put"
    /\ resp.status \in {200, 500}
    /\ resp.token = Session("A")
    /\ nextId > resp.id
    /\ \A t \in todos : t.id # resp.id
    /\ \E t \in todos : t.user = "B"

----------------------------------------------------------------------------
(* Properties of the client session                                        *)

Signs == {"login", "register"}

\* checkAuthState settles in this step.
CheckEnds == result' # result /\ result'.op = "check"

\* C5: a checkAuthState that read a token and whose validation failed
\* settles resolved (nothing thrown), Anonymous, with the item removed.
C5_FailedCheckEndsAnonymous ==
    [][ ( /\ CheckEnds
          /\ result'.token # Null
          /\ \/ result'.at = "fetch" /\ result'.how = "rejected"
             \/ result'.at = "discarded" /\ result'.caught = "fetch" )
        => ( /\ result'.how = "resolved"
             /\ authState' = Anonymous
             /\ storage' = Null ) ]_vars

\* C6: a login or register whose server call fails settles rejected, with
\* the session state and the Credential Store as they were.
C6_FailedSignChangesNothing ==
    [][ \A op \in Signs :
          (ops[op].pc = "fetch" /\ ops'[op].pc = "idle" /\ result'.op = op)
          => ( /\ result'.how = "rejected"
               /\ authState' = authState
               /\ storage' = storage
               /\ view' = view ) ]_vars

\* A login was rejected by the server; the session is Anonymous and the
\* Credential Store empty.
C6_Witness ==
    /\ result = [NoResult EXCEPT !.op = "login", !.how = "rejected", !.at = "fetch"]
    /\ authState = Anonymous
    /\ storage = Null

\* C7: the state a login or register sets is Authenticated with the user and
\* token of the answer, and that token is the one the operation has stored
\* before; until it is stored the operation leaves the session as it was.
C7_StoredBeforeAuthenticated ==
    /\ hist.setBy \in Signs =>
          /\ hist.wrote # Null
          /\ authState = Authenticated(UserOf(hist.wrote), hist.wrote)
    /\ \A op \in Signs :
          /\ ops[op].pc = "stored" => ops[op].wrote = ops[op].token
          /\ ops[op].pc \in {"fetch", "setItem"} => hist.setBy # op \/ ops[op].wrote = Null

\* A register from Anonymous resolved: B is authenticated and B's token is
\* the stored item.
C7_Witness ==
    /\ result.op = "register"
    /\ result.how = "resolved"
    /\ hist.setBy = "register"
    /\ authState = Authenticated("B", TokenOf("B"))
    /\ storage = TokenOf("B")

\* The order of logout's own steps (removeItem, then setAuthState): once a
\* logout has made the session Anonymous, the Credential Store holds no token
\* unless a login or register has stored one since that logout began, and a
\* restart from there does not reconstruct an authenticated session.
LogoutClearsStoreFirst ==
    /\ hist.logout \in {"observed", "restarted"} => storage = Null
    /\ hist.logout = "restarted" => authState.user = Null

\* C8: whenever a logout makes the session Anonymous, the Credential Store
\* holds no token.
C8_StoreEmptyAtLogoutTransition ==
    [][ (ops["logout"].pc = "removed" /\ ops'["logout"].pc = "idle" /\ hist'.setBy = "logout")
        => (authState' = Anonymous /\ storage' = Null) ]_vars

\* The process restarted after a logout and the reconstruction ended
\* Anonymous.
LogoutThenRestart ==
    /\ hist.logout = "restarted"
    /\ result.op = "check"
    /\ result.how = "resolved"
    /\ authState = Anonymous

C15_StartupResolves == <>[](~authState.isLoading)

\* C16: when no session operation is in progress and the session is not
\* loading, the session has a user exactly when it has a token and exactly
\* when the Credential Store holds one, and the two tokens are the same.
C16_SessionAgreesWithStore ==
    (Active = {} /\ ~authState.isLoading) =>
        /\ (authState.user # Null) <=> (authState.token # Null)
        /\ (authState.token # Null) <=> (storage # Null)
        /\ authState.token = storage

====
